---- MODULE Spec2Model ----
(***************************************************************************)
(* Local-first persistence and reconciliation engine of todoee:            *)
(* the local SQLite store (todos, operations, stash), the remote Postgres  *)
(* store, the undo/redo commands and SyncService::sync.                    *)
(*                                                                         *)
(* Timestamps are clock ticks.  Every handler run that reads Utc::now()    *)
(* sees a tick later than every earlier run of the local process; the      *)
(* reads inside one run fall into the same tick.  Other clients and the    *)
(* Postgres server have clocks of their own.  The local store keeps        *)
(* timestamps as RFC 3339 text in UTC, whose text order is the time order, *)
(* so comparisons are made on the ticks.                                   *)
(*                                                                         *)
(* A Todo is modelled by title, is_completed, completed_at, created_at,    *)
(* updated_at and sync_status; the other payload columns are copied by     *)
(* the same statements that copy title.                                    *)
(***************************************************************************)
EXTENDS Integers, Sequences, FiniteSets, TLC

\* ---------------------------------------------------------------- bounds
MaxIds == 2
MaxTime == 3
MaxLog == 2
MaxRemoteWrites == 1
MaxTaskIds == 1
MaxGcDays == 2
MaxCats == 2

Ids == 1..MaxIds
Times == 1..MaxTime
Titles == {"a", "b"}

\* Option<DateTime<Utc>>::None, and the epoch used as the sync cursor
NoTime == 0
CatIds == 1..MaxCats
CatNames == {"work", "home"}
\* category_id: None
NoCategory == 0

VARIABLES
    todos,        \* local table todos: id -> Todo
    stash,        \* local table stash: id -> [todo, stashed_at]
    operations,   \* local table operations, in insertion order
    remote,       \* remote table todos: id -> row (with deleted_at)
    now,          \* last tick read by the local process
    next_id,      \* ids below next_id have been minted by Uuid::new_v4
    writes,       \* number of writes other clients made to the remote
    categories,   \* local table categories: id -> name
    next_cat,     \* category ids below next_cat have been minted by Uuid::new_v4
    foreign_keys, \* whether the SQLite connection enforces REFERENCES clauses
    last,         \* the last handler run: its kind, arguments, pre-state, result
    track,        \* the operation recorded last and whether undo/redo followed it
    pass,         \* a sync() in progress that other processes interleave with
    streak        \* the run of consecutive undos, then redos, and the table before it

vars == <<todos, stash, operations, remote, now, next_id, writes,
          categories, next_cat, foreign_keys, pass, last, track, streak>>

catvars == <<categories, next_cat, foreign_keys>>

\* ------------------------------------------------------------ small helpers
Some(x) == <<x>>
NoneOpt == <<>>
IsSome(o) == o # <<>>

Restrict(f, S) == [x \in S |-> f[x]]
Put(f, k, v) == [x \in (DOMAIN f) \cup {k} |-> IF x = k THEN v ELSE f[x]]

\* ---------------------------------------------------------------- models.rs
Todo_new(title, t) ==
    [title |-> title, is_completed |-> FALSE, completed_at |-> NoTime,
     created_at |-> t, updated_at |-> t, sync_status |-> "pending",
     category_id |-> NoCategory]

mark_complete_no_stamp(todo, t) ==
    [todo EXCEPT !.is_completed = TRUE, !.updated_at = t, !.sync_status = "pending"]

mark_complete(todo, t) ==
    [todo EXCEPT !.is_completed = TRUE, !.completed_at = t,
                 !.updated_at = t, !.sync_status = "pending"]

mark_incomplete(todo, t) ==
    [todo EXCEPT !.is_completed = FALSE, !.completed_at = NoTime,
                 !.updated_at = t, !.sync_status = "pending"]

Operation_new(operation_type, entity_id, previous_state, new_state, t) ==
    [operation_type |-> operation_type, entity_id |-> entity_id,
     previous_state |-> previous_state, new_state |-> new_state,
     created_at |-> t, undone |-> FALSE]

\* -------------------------------------------------------------- db/local.rs
\* INSERT INTO todos: fails on an id that is already a primary key
create_todo_fails(tbl, id) == id \in DOMAIN tbl

\* every column is bound from the Todo it is given, sync_status included
create_todo_as_pending(tbl, id, todo) ==
    Put(tbl, id, [todo EXCEPT !.sync_status = "pending"])

create_todo(tbl, id, todo) == Put(tbl, id, todo)

get_todo(tbl, id) == IF id \in DOMAIN tbl THEN Some(tbl[id]) ELSE NoneOpt

\* UPDATE todos SET ... WHERE id: every column but id and created_at
update_todo_keep_stamp(tbl, id, todo) ==
    IF id \in DOMAIN tbl
    THEN [tbl EXCEPT ![id] = [todo EXCEPT !.created_at = tbl[id].created_at,
                                          !.updated_at = tbl[id].updated_at]]
    ELSE tbl

update_todo(tbl, id, todo) ==
    IF id \in DOMAIN tbl
    THEN [tbl EXCEPT ![id] = [todo EXCEPT !.created_at = tbl[id].created_at]]
    ELSE tbl

mark_synced_skipped(tbl, id) == tbl

\* UPDATE todos SET sync_status = 'synced' WHERE id
mark_synced(tbl, id) ==
    IF id \in DOMAIN tbl THEN [tbl EXCEPT ![id].sync_status = "synced"] ELSE tbl

delete_todo(tbl, id) == Restrict(tbl, (DOMAIN tbl) \ {id})

\* table deleted_todos: run_migrations creates it and no statement writes to it
deleted_todos == {}

\* the ids of S in ascending order of key (ORDER BY key ASC)
RECURSIVE OrderAsc(_, _)
OrderAsc(S, key) ==
    IF S = {} THEN <<>>
    ELSE LET m == CHOOSE x \in S : \A y \in S : key[x] <= key[y]
         IN  <<m>> \o OrderAsc(S \ {m}, key)

\* SELECT * FROM todos WHERE sync_status = 'pending' ORDER BY updated_at ASC
list_pending_sync(tbl) ==
    OrderAsc({id \in DOMAIN tbl : tbl[id].sync_status = "pending"},
             [id \in DOMAIN tbl |-> tbl[id].updated_at])

record_operation(ops, op) == Append(ops, op)

\* the positions of the rows of ops with the given undone flag
Flagged(ops, flag) == {i \in 1..Len(ops) : ops[i].undone = flag}

\* ... WHERE undone = flag ORDER BY created_at DESC LIMIT 1 (0: no row)
LatestFlagged(ops, flag) ==
    IF Flagged(ops, flag) = {} THEN 0
    ELSE CHOOSE i \in Flagged(ops, flag) :
            \A j \in Flagged(ops, flag) : ops[j].created_at <= ops[i].created_at

OldestFlagged(ops, flag) ==
    IF Flagged(ops, flag) = {} THEN 0
    ELSE CHOOSE i \in Flagged(ops, flag) :
            \A j \in Flagged(ops, flag) : ops[i].created_at <= ops[j].created_at

get_last_undoable_oldest(ops) == OldestFlagged(ops, FALSE)

get_last_undoable_operation(ops) == LatestFlagged(ops, FALSE)

get_last_redoable_any(ops) ==
    IF ops = <<>> THEN 0
    ELSE CHOOSE i \in 1..Len(ops) : \A j \in 1..Len(ops) : ops[j].created_at <= ops[i].created_at

get_last_redoable_fresh(ops) ==
    LET i == LatestFlagged(ops, TRUE)
    IN  IF i # 0 /\ \E j \in Flagged(ops, FALSE) : ops[j].created_at > ops[i].created_at
        THEN 0 ELSE i

get_last_redoable_operation(ops) == LatestFlagged(ops, TRUE)

mark_operation_undone_all(ops, i) ==
    [j \in 1..Len(ops) |-> [ops[j] EXCEPT !.undone = TRUE]]

\* UPDATE operations SET undone = 1 WHERE id (undone = 0 for redone)
mark_operation_undone(ops, i) == [ops EXCEPT ![i].undone = TRUE]

mark_operation_redone(ops, i) == [ops EXCEPT ![i].undone = FALSE]

clear_old_operations_inclusive(ops, cutoff) ==
    SelectSeq(ops, LAMBDA o : o.created_at > cutoff)

\* DELETE FROM operations WHERE created_at < cutoff
clear_old_operations(ops, cutoff) ==
    SelectSeq(ops, LAMBDA o : o.created_at >= cutoff)

stash_todo_fails_unchecked(tbl, st, id) == id \notin DOMAIN tbl

\* INSERT INTO stash ...; DELETE FROM todos: errors when id is stashed or absent
stash_todo_fails(tbl, st, id) == id \in DOMAIN st \/ id \notin DOMAIN tbl

stash_todo_stash_touched(tbl, st, id, t) ==
    Put(st, id, [todo |-> [tbl[id] EXCEPT !.updated_at = t, !.sync_status = "pending"],
                 stashed_at |-> t])

stash_todo_stash(tbl, st, id, t) == Put(st, id, [todo |-> tbl[id], stashed_at |-> t])

\* LocalDb::stash_todo as a whole: Err, or the two tables after it
stash_todo(tbl, st, id, t) ==
    IF stash_todo_fails(tbl, st, id)
    THEN [ok |-> FALSE, todos |-> tbl, stash |-> st]
    ELSE [ok |-> TRUE, todos |-> delete_todo(tbl, id),
          stash |-> stash_todo_stash(tbl, st, id, t)]

stash_top_oldest(st) ==
    IF DOMAIN st = {} THEN 0
    ELSE CHOOSE i \in DOMAIN st :
            \A j \in DOMAIN st : st[i].stashed_at <= st[j].stashed_at

\* SELECT * FROM stash ORDER BY stashed_at DESC LIMIT 1 (0: the stash is empty)
stash_top(st) ==
    IF DOMAIN st = {} THEN 0
    ELSE CHOOSE i \in DOMAIN st :
            \A j \in DOMAIN st : st[j].stashed_at <= st[i].stashed_at

\* ------------------------------------------------- db/local.rs, categories
\* category_id TEXT REFERENCES categories(id), on an INSERT or UPDATE of todos
fk_fails(cats, fk, todo) ==
    fk /\ todo.category_id # NoCategory /\ todo.category_id \notin DOMAIN cats

\* SELECT * FROM categories WHERE name = ?1 (NoCategory: no row)
get_category_by_name(cats, name) ==
    IF \E c \in DOMAIN cats : cats[c] = name
    THEN CHOOSE c \in DOMAIN cats : cats[c] = name
    ELSE NoCategory

\* INSERT INTO categories: fails on an id that is already a primary key
create_category_fails(cats, c) == c \in DOMAIN cats

create_category(cats, c, name) == Put(cats, c, name)

\* DELETE FROM categories WHERE id: with the REFERENCES clause enforced (and
\* no ON DELETE action) it fails while a row of todos holds the id
delete_category_fails(tbl, fk, c) ==
    fk /\ \E id \in DOMAIN tbl : tbl[id].category_id = c

delete_category(cats, c) == Restrict(cats, (DOMAIN cats) \ {c})

\* UPDATE todos SET category_id = NULL WHERE category_id = ?
clear_category_from_todos(tbl, c) ==
    [id \in DOMAIN tbl |->
        IF tbl[id].category_id = c
        THEN [tbl[id] EXCEPT !.category_id = NoCategory]
        ELSE tbl[id]]

\* ------------------------------------------------------------- db/remote.rs
RemoteRow(todo, deleted_at) ==
    [title |-> todo.title, is_completed |-> todo.is_completed,
     completed_at |-> todo.completed_at, created_at |-> todo.created_at,
     updated_at |-> todo.updated_at, deleted_at |-> deleted_at,
     category_id |-> todo.category_id]

\* the row as get_todos_since builds a Todo from it
RemoteTodo(row) ==
    [title |-> row.title, is_completed |-> row.is_completed,
     completed_at |-> row.completed_at, created_at |-> row.created_at,
     updated_at |-> row.updated_at, sync_status |-> "synced",
     category_id |-> row.category_id]

upsert_todo_revives(rem, id, todo) ==
    IF id \notin DOMAIN rem
    THEN Put(rem, id, RemoteRow(todo, NoTime))
    ELSE IF rem[id].updated_at < todo.updated_at
         THEN [rem EXCEPT ![id] =
                  [RemoteRow(todo, NoTime)
                      EXCEPT !.created_at = rem[id].created_at]]
         ELSE rem

upsert_todo_unguarded(rem, id, todo) ==
    IF id \notin DOMAIN rem
    THEN Put(rem, id, RemoteRow(todo, NoTime))
    ELSE [rem EXCEPT ![id] =
             [RemoteRow(todo, rem[id].deleted_at)
                 EXCEPT !.created_at = rem[id].created_at]]

upsert_todo_not_strict(rem, id, todo) ==
    IF id \notin DOMAIN rem
    THEN Put(rem, id, RemoteRow(todo, NoTime))
    ELSE IF rem[id].updated_at <= todo.updated_at
         THEN [rem EXCEPT ![id] =
                  [RemoteRow(todo, rem[id].deleted_at)
                      EXCEPT !.created_at = rem[id].created_at]]
         ELSE rem

\* INSERT ... ON CONFLICT (id) DO UPDATE SET <all but id, created_at, deleted_at>
\*   WHERE todos.updated_at < EXCLUDED.updated_at
upsert_todo(rem, id, todo) ==
    IF id \notin DOMAIN rem
    THEN Put(rem, id, RemoteRow(todo, NoTime))
    ELSE IF rem[id].updated_at < todo.updated_at
         THEN [rem EXCEPT ![id] =
                  [RemoteRow(todo, rem[id].deleted_at)
                      EXCEPT !.created_at = rem[id].created_at]]
         ELSE rem

\* SELECT ... WHERE updated_at > since AND deleted_at IS NULL ORDER BY updated_at ASC
get_todos_since_inclusive(rem, since) ==
    OrderAsc({id \in DOMAIN rem :
                 rem[id].updated_at >= since /\ rem[id].deleted_at = NoTime},
             [id \in DOMAIN rem |-> rem[id].updated_at])

get_todos_since(rem, since) ==
    OrderAsc({id \in DOMAIN rem :
                 rem[id].updated_at > since /\ rem[id].deleted_at = NoTime},
             [id \in DOMAIN rem |-> rem[id].updated_at])

\* UPDATE todos SET deleted_at = NOW(), updated_at = NOW() WHERE id
soft_delete_todo(rem, id, t) ==
    IF id \in DOMAIN rem
    THEN [rem EXCEPT ![id].deleted_at = t, ![id].updated_at = t]
    ELSE rem

\* ------------------------------------------------------------------ sync.rs
get_last_sync_time == NoTime

\* for todo in pending { upsert_todo; mark_synced; uploaded += 1 }
RECURSIVE SyncPush(_, _)
SyncPush(pending, st) ==
    IF pending = <<>> THEN st
    ELSE LET id == Head(pending)
         IN  SyncPush(Tail(pending),
                 [st EXCEPT !.remote = upsert_todo(st.remote, id, st.todos[id]),
                            !.todos = mark_synced(st.todos, id),
                            !.uploaded = st.uploaded + 1])

\* the body of: for remote_todo in remote_changes { match get_todo(id) ... }
SyncPullOne_not_strict(st, id) ==
    LET remote_todo == RemoteTodo(st.remote[id])
        local == get_todo(st.todos, id)
    IN  IF IsSome(local)
        THEN IF remote_todo.updated_at >= local[1].updated_at
             THEN [st EXCEPT !.todos = update_todo(st.todos, id, remote_todo),
                             !.downloaded = st.downloaded + 1]
             ELSE IF local[1].sync_status = "pending"
                  THEN [st EXCEPT !.conflicts = st.conflicts + 1]
                  ELSE st
        ELSE [st EXCEPT !.todos = create_todo(st.todos, id, remote_todo),
                        !.downloaded = st.downloaded + 1]

SyncPullOne(st, id) ==
    LET remote_todo == RemoteTodo(st.remote[id])
        local == get_todo(st.todos, id)
    IN  IF IsSome(local)
        THEN IF remote_todo.updated_at > local[1].updated_at
             THEN [st EXCEPT !.todos = update_todo(st.todos, id, remote_todo),
                             !.downloaded = st.downloaded + 1]
             ELSE IF local[1].sync_status = "pending"
                  THEN [st EXCEPT !.conflicts = st.conflicts + 1]
                  ELSE st
        ELSE [st EXCEPT !.todos = create_todo(st.todos, id, remote_todo),
                        !.downloaded = st.downloaded + 1]

RECURSIVE SyncPull(_, _)
SyncPull(remote_changes, st) ==
    IF remote_changes = <<>> THEN st
    ELSE SyncPull(Tail(remote_changes), SyncPullOne(st, Head(remote_changes)))

\* SyncService::sync with a configured remote: push, then pull from the epoch
sync(tbl, rem) ==
    LET pushed == SyncPush(list_pending_sync(tbl),
                      [todos |-> tbl, remote |-> rem,
                       uploaded |-> 0, downloaded |-> 0, conflicts |-> 0])
    IN  SyncPull(get_todos_since(pushed.remote, get_last_sync_time), pushed)

\* the upload loop when upsert_todo returns Err for the ids of failing:
\* `remote.upsert_todo(&todo).await?` leaves sync() at the first such id
RECURSIVE SyncPushFailing(_, _, _)
SyncPushFailing(pending, st, failing) ==
    IF pending = <<>> THEN [st EXCEPT !.failed = FALSE]
    ELSE LET id == Head(pending)
         IN  IF id \in failing
             THEN [st EXCEPT !.failed = TRUE]
             ELSE SyncPushFailing(Tail(pending),
                      [st EXCEPT !.remote = upsert_todo(st.remote, id, st.todos[id]),
                                 !.todos = mark_synced(st.todos, id),
                                 !.uploaded = st.uploaded + 1],
                      failing)

\* SyncService::sync when the upserts of failing return Err
sync_failing(tbl, rem, failing) ==
    LET pushed == SyncPushFailing(list_pending_sync(tbl),
                      [todos |-> tbl, remote |-> rem, failed |-> FALSE,
                       uploaded |-> 0, downloaded |-> 0, conflicts |-> 0],
                      failing)
    IN  IF pushed.failed THEN pushed
        ELSE SyncPull(get_todos_since(pushed.remote, get_last_sync_time), pushed)

\* does the loop body write the local table for this remote task
SyncPullWrites(st, id) == SyncPullOne(st, id).todos # st.todos

\* the download loop when the local write (update_todo / create_todo) for
\* the ids of failing returns Err: map_err(..)? leaves sync() at that task;
\* start is the state the pass began the loop with
RECURSIVE SyncPullFailing(_, _, _, _)
SyncPullFailing_rollback(remote_changes, st, failing, start) ==
    [start EXCEPT !.failed = TRUE]

SyncPullFailing(remote_changes, st, failing, start) ==
    IF remote_changes = <<>> THEN [st EXCEPT !.failed = FALSE]
    ELSE LET id == Head(remote_changes)
         IN  IF id \in failing /\ SyncPullWrites(st, id)
             THEN [st EXCEPT !.failed = TRUE]
             ELSE SyncPullFailing(Tail(remote_changes), SyncPullOne(st, id),
                                  failing, start)

\* SyncService::sync when the local writes of failing return Err in the pull
sync_pull_failing(tbl, rem, failing) ==
    LET pushed == SyncPush(list_pending_sync(tbl),
                      [todos |-> tbl, remote |-> rem, failed |-> FALSE,
                       uploaded |-> 0, downloaded |-> 0, conflicts |-> 0])
    IN  SyncPullFailing(get_todos_since(pushed.remote, get_last_sync_time),
                        pushed, failing, pushed)

\* SyncService::is_configured: self.remote.is_some()
is_configured(remote_opt) == IsSome(remote_opt)

sync_service_marks_first(remote_opt, tbl) ==
    IF ~is_configured(remote_opt)
    THEN [ok |-> FALSE,
          todos |-> [id \in DOMAIN tbl |-> [tbl[id] EXCEPT !.sync_status = "synced"]]]
    ELSE [ok |-> TRUE, todos |-> sync(tbl, remote_opt[1]).todos]

\* SyncService::sync of a service whose remote is remote_opt: without a
\* remote, `self.remote.as_ref().ok_or_else(..)?` returns Err at once
sync_service(remote_opt, tbl) ==
    IF ~is_configured(remote_opt)
    THEN [ok |-> FALSE, todos |-> tbl]
    ELSE [ok |-> TRUE, todos |-> sync(tbl, remote_opt[1]).todos]

\* ------------------------------------------------------- history of the run
NoTable == <<>>

L(kind, id, op) ==
    [kind |-> kind, id |-> id, op |-> op, arg |-> NoneOpt,
     pre_todos |-> NoTable, pre_remote |-> NoTable,
     uploaded |-> 0, downloaded |-> 0, conflicts |-> 0]

\* no sync() is between two of its awaits
Idle == [pc |-> "idle", pending |-> <<>>, uploaded |-> 0]

NoStreak == [base |-> <<>>, undos |-> 0, redos |-> 0]

\* the run after one more undo: an undo that follows a redo starts a new run
Undone(run, tbl) ==
    IF run.undos > 0 /\ run.redos = 0
    THEN [run EXCEPT !.undos = @ + 1]
    ELSE [base |-> tbl, undos |-> 1, redos |-> 0]

\* the run after one more redo: only the redos that follow the undos count
Redone(run) ==
    IF run.redos < run.undos THEN [run EXCEPT !.redos = @ + 1] ELSE NoStreak

NoTrack == [kind |-> "none", id |-> 0, old |-> NoneOpt, new |-> NoneOpt, stage |-> "none"]

Recorded(kind, id, old, new) ==
    [kind |-> kind, id |-> id, old |-> old, new |-> new, stage |-> "recorded"]

Init ==
    /\ todos = NoTable
    /\ stash = NoTable
    /\ operations = <<>>
    /\ remote = NoTable
    /\ now = 0
    /\ next_id = 1
    /\ writes = 0
    /\ categories = NoTable
    /\ next_cat = 1
    /\ foreign_keys = TRUE
    /\ last = L("init", 0, 0)
    /\ track = NoTrack
    /\ streak = NoStreak
    /\ pass = Idle

\* --------------------------------------------------------- commands/add.rs
\* run: Todo::new, create_todo; no operation is recorded
AddCmd(title) ==
    /\ now < MaxTime
    /\ next_id <= MaxIds
    /\ now' = now + 1
    /\ next_id' = next_id + 1
    /\ todos' = create_todo(todos, next_id, Todo_new(title, now + 1))
    /\ last' = L("add", next_id, 0)
    /\ track' = NoTrack
    /\ streak' = NoStreak
    /\ UNCHANGED <<stash, operations, remote, writes, catvars, pass>>

\* ------------------------------------------------------------- tui/app.rs
\* App::add_todo: Todo::new, create_todo, record a Create operation
TuiAdd(title) ==
    /\ now < MaxTime
    /\ next_id <= MaxIds
    /\ Len(operations) < MaxLog
    /\ LET todo == Todo_new(title, now + 1)
       IN  /\ todos' = create_todo(todos, next_id, todo)
           /\ operations' = record_operation(operations,
                  Operation_new("create", next_id, NoneOpt, Some(todo), now + 1))
           /\ track' = Recorded("create", next_id, NoneOpt, get_todo(todos', next_id))
           /\ streak' = NoStreak
    /\ now' = now + 1
    /\ next_id' = next_id + 1
    /\ last' = L("tui_add", next_id, Len(operations) + 1)
    /\ UNCHANGED <<stash, remote, writes, catvars, pass>>

\* App::delete_selected: delete_todo, record a Delete operation
TuiDelete(id) ==
    /\ now < MaxTime
    /\ id \in DOMAIN todos
    /\ Len(operations) < MaxLog
    /\ todos' = delete_todo(todos, id)
    /\ operations' = record_operation(operations,
           Operation_new("delete", id, Some(todos[id]), NoneOpt, now + 1))
    /\ now' = now + 1
    /\ last' = L("tui_delete", id, Len(operations) + 1)
    /\ track' = NoTrack
    /\ streak' = NoStreak
    /\ UNCHANGED <<stash, remote, next_id, writes, catvars, pass>>

\* -------------------------------------------------------- commands/edit.rs
\* run with --title: new title, updated_at = now, Pending; record an Update
EditCmd(id, title) ==
    /\ now < MaxTime
    /\ id \in DOMAIN todos
    /\ Len(operations) < MaxLog
    /\ LET prev_state == todos[id]
           todo == [prev_state EXCEPT !.title = title, !.updated_at = now + 1,
                                      !.sync_status = "pending"]
       IN  /\ todos' = update_todo(todos, id, todo)
           /\ operations' = record_operation(operations,
                  Operation_new("update", id, Some(prev_state), Some(todo), now + 1))
           /\ track' = Recorded("update", id, Some(prev_state), get_todo(todos', id))
           /\ streak' = NoStreak
    /\ now' = now + 1
    /\ last' = L("edit", id, Len(operations) + 1)
    /\ UNCHANGED <<stash, remote, next_id, writes, catvars, pass>>

\* -------------------------------------------------------- commands/done.rs
\* run on a todo that is not completed: mark_complete, record a Complete
DoneCmd(id) ==
    /\ now < MaxTime
    /\ id \in DOMAIN todos
    /\ ~todos[id].is_completed
    /\ Len(operations) < MaxLog
    /\ LET prev_state == todos[id]
           todo == mark_complete(prev_state, now + 1)
       IN  /\ todos' = update_todo(todos, id, todo)
           /\ operations' = record_operation(operations,
                  Operation_new(IF todo.is_completed THEN "complete" ELSE "uncomplete",
                                id, Some(prev_state), Some(todo), now + 1))
    /\ now' = now + 1
    /\ last' = L("done", id, Len(operations) + 1)
    /\ track' = NoTrack
    /\ streak' = NoStreak
    /\ UNCHANGED <<stash, remote, next_id, writes, catvars, pass>>

\* ------------------------------------------------------- commands/stash.rs
\* push: stash_todo (insert into stash, delete from todos), record a Stash
StashPush(id) ==
    /\ now < MaxTime
    /\ id \in DOMAIN todos
    /\ Len(operations) < MaxLog
    /\ IF stash_todo_fails(todos, stash, id)
       THEN /\ last' = L("stash_push_err", id, 0)
            /\ UNCHANGED <<todos, stash, operations, now>>
       ELSE /\ stash' = stash_todo_stash(todos, stash, id, now + 1)
            /\ todos' = delete_todo(todos, id)
            /\ operations' = record_operation(operations,
                   Operation_new("stash", id, Some(todos[id]), NoneOpt, now + 1))
            /\ now' = now + 1
            /\ last' = [L("stash_push", id, Len(operations) + 1) EXCEPT
                           !.pre_todos = todos]
    /\ track' = NoTrack
    /\ streak' = NoStreak
    /\ UNCHANGED <<remote, next_id, writes, catvars, pass>>

\* pop: stash_pop (delete the latest stash row, create_todo), record an Unstash
StashPop ==
    /\ now < MaxTime
    /\ Len(operations) < MaxLog
    /\ LET id == stash_top(stash)
       IN  IF id = 0
           THEN /\ last' = L("stash_pop_none", 0, 0)
                /\ UNCHANGED <<todos, stash, operations, now>>
           ELSE IF create_todo_fails(todos, id)
           THEN /\ stash' = Restrict(stash, (DOMAIN stash) \ {id})
                /\ last' = L("stash_pop_err", id, 0)
                /\ UNCHANGED <<todos, operations, now>>
           ELSE /\ stash' = Restrict(stash, (DOMAIN stash) \ {id})
                /\ todos' = create_todo(todos, id, stash[id].todo)
                /\ operations' = record_operation(operations,
                       Operation_new("unstash", id, NoneOpt, Some(stash[id].todo), now + 1))
                /\ now' = now + 1
                /\ last' = L("stash_pop", id, Len(operations) + 1)
    /\ track' = NoTrack
    /\ streak' = NoStreak
    /\ UNCHANGED <<remote, next_id, writes, catvars, pass>>

\* -------------------------------------------------------- commands/undo.rs
Applied(tbl, tick) == [ok |-> TRUE, todos |-> tbl, tick |-> tick]
Failed(tbl) == [ok |-> FALSE, todos |-> tbl, tick |-> FALSE]

\* the create_todo or update_todo of an arm under the REFERENCES clause: the
\* statement that would store a reference to a missing category returns Err
FkChecked(r, tbl, cats, fk, id) ==
    IF /\ r.ok
       /\ id \in DOMAIN r.todos
       /\ get_todo(r.todos, id) # get_todo(tbl, id)
       /\ fk_fails(cats, fk, r.todos[id])
    THEN Failed(tbl)
    ELSE r

\* create_todo(&todo).await? : the error leaves the table as it was
TryCreate(tbl, id, state) ==
    IF ~IsSome(state) THEN Applied(tbl, FALSE)
    ELSE IF create_todo_fails(tbl, id) THEN Failed(tbl)
    ELSE Applied(create_todo(tbl, id, state[1]), FALSE)

apply_undo_from_new_state(op, tbl, t) ==
    LET id == op.entity_id
        ty == op.operation_type
    IN  IF ty = "update"
        THEN IF IsSome(op.new_state)
             THEN Applied(update_todo(tbl, id, op.new_state[1]), FALSE)
             ELSE Applied(tbl, FALSE)
        ELSE IF ty = "create" THEN Applied(delete_todo(tbl, id), FALSE)
        ELSE IF ty \in {"delete", "stash"} THEN TryCreate(tbl, id, op.previous_state)
        ELSE IF ty = "complete" /\ id \in DOMAIN tbl
        THEN Applied(update_todo(tbl, id, mark_incomplete(tbl[id], t)), TRUE)
        ELSE Applied(tbl, FALSE)

\* the match of run over (operation_type, EntityType::Todo)
apply_undo_reverses_unstash(op, tbl, t) ==
    LET id == op.entity_id
        ty == op.operation_type
    IN  IF ty \in {"create", "unstash"} THEN Applied(delete_todo(tbl, id), FALSE)
        ELSE IF ty = "delete" THEN TryCreate(tbl, id, op.previous_state)
        ELSE IF ty = "update"
        THEN IF IsSome(op.previous_state)
             THEN Applied(update_todo(tbl, id, op.previous_state[1]), FALSE)
             ELSE Applied(tbl, FALSE)
        ELSE IF ty = "complete"
        THEN IF id \in DOMAIN tbl
             THEN Applied(update_todo(tbl, id, mark_incomplete(tbl[id], t)), TRUE)
             ELSE Applied(tbl, FALSE)
        ELSE IF ty = "uncomplete"
        THEN IF id \in DOMAIN tbl
             THEN Applied(update_todo(tbl, id, mark_complete(tbl[id], t)), TRUE)
             ELSE Applied(tbl, FALSE)
        ELSE IF ty = "stash" THEN TryCreate(tbl, id, op.previous_state)
        ELSE Applied(tbl, FALSE)

apply_undo(op, tbl, t) ==
    LET id == op.entity_id
        ty == op.operation_type
    IN  IF ty = "create" THEN Applied(delete_todo(tbl, id), FALSE)
        ELSE IF ty = "delete" THEN TryCreate(tbl, id, op.previous_state)
        ELSE IF ty = "update"
        THEN IF IsSome(op.previous_state)
             THEN Applied(update_todo(tbl, id, op.previous_state[1]), FALSE)
             ELSE Applied(tbl, FALSE)
        ELSE IF ty = "complete"
        THEN IF id \in DOMAIN tbl
             THEN Applied(update_todo(tbl, id, mark_incomplete(tbl[id], t)), TRUE)
             ELSE Applied(tbl, FALSE)
        ELSE IF ty = "uncomplete"
        THEN IF id \in DOMAIN tbl
             THEN Applied(update_todo(tbl, id, mark_complete(tbl[id], t)), TRUE)
             ELSE Applied(tbl, FALSE)
        ELSE IF ty = "stash" THEN TryCreate(tbl, id, op.previous_state)
        ELSE Applied(tbl, FALSE)

\* run: get_last_undoable_operation, revert it, mark_operation_undone
Undo ==
    LET i == get_last_undoable_operation(operations)
    IN  IF i = 0
        THEN /\ last' = L("undo_none", 0, 0)
             /\ track' = NoTrack
             /\ streak' = NoStreak
             /\ UNCHANGED <<todos, stash, operations, remote, now, next_id, writes, catvars, pass>>
        ELSE LET r == FkChecked(apply_undo(operations[i], todos, now + 1), todos,
                                categories, foreign_keys, operations[i].entity_id)
             IN  /\ r.tick => now < MaxTime
                 /\ todos' = r.todos
                 /\ now' = IF r.tick THEN now + 1 ELSE now
                 /\ operations' = IF r.ok THEN mark_operation_undone(operations, i)
                                  ELSE operations
                 /\ last' = L(IF r.ok THEN "undo" ELSE "undo_err",
                              operations[i].entity_id, i)
                 /\ track' = IF r.ok /\ track.stage = "recorded"
                             THEN [track EXCEPT !.stage = "undone"]
                             ELSE NoTrack
                 /\ streak' = IF r.ok THEN Undone(streak, todos) ELSE NoStreak
                 /\ UNCHANGED <<stash, remote, next_id, writes, catvars, pass>>

\* ---------------------------------------------------- tui/app.rs, undo
\* App::apply_undo: the Complete arm clears the flag and the stamp itself
\* (no mark_incomplete), the Stash and Unstash arms are empty
tui_apply_undo(op, tbl, t) ==
    LET id == op.entity_id
        ty == op.operation_type
    IN  IF ty = "create" THEN Applied(delete_todo(tbl, id), FALSE)
        ELSE IF ty = "delete" THEN TryCreate(tbl, id, op.previous_state)
        ELSE IF ty = "update"
        THEN IF IsSome(op.previous_state)
             THEN Applied(update_todo(tbl, id, op.previous_state[1]), FALSE)
             ELSE Applied(tbl, FALSE)
        ELSE IF ty = "complete"
        THEN IF id \in DOMAIN tbl
             THEN Applied(update_todo(tbl, id,
                      [tbl[id] EXCEPT !.is_completed = FALSE,
                                      !.completed_at = NoTime]), FALSE)
             ELSE Applied(tbl, FALSE)
        ELSE IF ty = "uncomplete"
        THEN IF id \in DOMAIN tbl
             THEN Applied(update_todo(tbl, id, mark_complete(tbl[id], t)), TRUE)
             ELSE Applied(tbl, FALSE)
        ELSE Applied(tbl, FALSE)

\* App::undo: get_last_undoable_operation, apply_undo, mark_operation_undone
TuiUndo ==
    LET i == get_last_undoable_operation(operations)
    IN  IF i = 0
        THEN /\ last' = L("tui_undo_none", 0, 0)
             /\ track' = NoTrack
             /\ streak' = NoStreak
             /\ UNCHANGED <<todos, stash, operations, remote, now, next_id, writes, catvars, pass>>
        ELSE LET r == FkChecked(tui_apply_undo(operations[i], todos, now + 1), todos,
                                categories, foreign_keys, operations[i].entity_id)
             IN  /\ r.tick => now < MaxTime
                 /\ todos' = r.todos
                 /\ now' = IF r.tick THEN now + 1 ELSE now
                 /\ operations' = IF r.ok THEN mark_operation_undone(operations, i)
                                  ELSE operations
                 /\ last' = L(IF r.ok THEN "tui_undo" ELSE "tui_undo_err",
                              operations[i].entity_id, i)
                 /\ track' = NoTrack
                 /\ streak' = NoStreak
                 /\ UNCHANGED <<stash, remote, next_id, writes, catvars, pass>>

\* -------------------------------------------------------- commands/redo.rs
apply_redo_as_pending(op, tbl, t) ==
    LET id == op.entity_id
        ty == op.operation_type
    IN  IF ty = "create"
        THEN IF IsSome(op.new_state)
             THEN TryCreate(tbl, id, Some(Todo_new(op.new_state[1].title, t)))
             ELSE Applied(tbl, FALSE)
        ELSE IF ty \in {"delete", "stash"} THEN Applied(delete_todo(tbl, id), FALSE)
        ELSE IF ty = "update" /\ IsSome(op.new_state)
        THEN Applied(update_todo(tbl, id, op.new_state[1]), FALSE)
        ELSE IF ty = "complete" /\ id \in DOMAIN tbl
        THEN Applied(update_todo(tbl, id, mark_complete(tbl[id], t)), TRUE)
        ELSE Applied(tbl, FALSE)

\* the match of run over (operation_type, EntityType::Todo)
apply_redo(op, tbl, t) ==
    LET id == op.entity_id
        ty == op.operation_type
    IN  IF ty = "create" THEN TryCreate(tbl, id, op.new_state)
        ELSE IF ty = "delete" THEN Applied(delete_todo(tbl, id), FALSE)
        ELSE IF ty = "update"
        THEN IF IsSome(op.new_state)
             THEN Applied(update_todo(tbl, id, op.new_state[1]), FALSE)
             ELSE Applied(tbl, FALSE)
        ELSE IF ty = "complete"
        THEN IF id \in DOMAIN tbl
             THEN Applied(update_todo(tbl, id, mark_complete(tbl[id], t)), TRUE)
             ELSE Applied(tbl, FALSE)
        ELSE IF ty = "uncomplete"
        THEN IF id \in DOMAIN tbl
             THEN Applied(update_todo(tbl, id, mark_incomplete(tbl[id], t)), TRUE)
             ELSE Applied(tbl, FALSE)
        ELSE IF ty = "stash" THEN Applied(delete_todo(tbl, id), FALSE)
        ELSE Applied(tbl, FALSE)

\* run: get_last_redoable_operation, re-apply it, mark_operation_redone
Redo ==
    LET i == get_last_redoable_operation(operations)
    IN  IF i = 0
        THEN /\ last' = L("redo_none", 0, 0)
             /\ track' = NoTrack
             /\ streak' = NoStreak
             /\ UNCHANGED <<todos, stash, operations, remote, now, next_id, writes, catvars, pass>>
        ELSE LET r == FkChecked(apply_redo(operations[i], todos, now + 1), todos,
                                categories, foreign_keys, operations[i].entity_id)
             IN  /\ r.tick => now < MaxTime
                 /\ todos' = r.todos
                 /\ now' = IF r.tick THEN now + 1 ELSE now
                 /\ operations' = IF r.ok THEN mark_operation_redone(operations, i)
                                  ELSE operations
                 /\ last' = L(IF r.ok THEN "redo" ELSE "redo_err",
                              operations[i].entity_id, i)
                 /\ track' = IF r.ok /\ track.stage = "undone"
                             THEN [track EXCEPT !.stage = "redone"]
                             ELSE NoTrack
                 /\ streak' = IF r.ok THEN Redone(streak) ELSE NoStreak
                 /\ UNCHANGED <<stash, remote, next_id, writes, catvars, pass>>

\* ---------------------------------------------------------- commands/gc.rs
\* the completed todos that run deletes: completed_at < cutoff
OldCompleted(tbl, cutoff) ==
    {id \in DOMAIN tbl : tbl[id].is_completed /\ tbl[id].completed_at # NoTime
                            /\ tbl[id].completed_at < cutoff}

\* run without --dry-run: cutoff = now - days; clear_old_operations, then
\* delete_todo for every old completed todo
Gc(days) ==
    /\ now < MaxTime
    /\ LET cutoff == (now + 1) - days
       IN  /\ operations' = clear_old_operations(operations, cutoff)
           /\ todos' = Restrict(todos, (DOMAIN todos) \ OldCompleted(todos, cutoff))
           /\ last' = [L("gc", 0, 0) EXCEPT !.arg =
                          Some([cutoff |-> cutoff,
                                deleted_ops |-> Len(operations) - Len(operations'),
                                deleted_todos |-> Cardinality(OldCompleted(todos, cutoff))])]
    /\ now' = now + 1
    /\ track' = NoTrack
    /\ streak' = NoStreak
    /\ UNCHANGED <<stash, remote, next_id, writes, catvars, pass>>

\* ------------------------------------------------------------------ sync.rs
\* SyncService::sync, one complete pass
Sync ==
    LET r == sync(todos, remote)
    IN  /\ todos' = r.todos
        /\ remote' = r.remote
        /\ last' = [L("sync", 0, 0) EXCEPT
                       !.pre_todos = todos, !.pre_remote = remote,
                       !.uploaded = r.uploaded, !.downloaded = r.downloaded,
                       !.conflicts = r.conflicts]
        /\ track' = NoTrack
        /\ streak' = NoStreak
        /\ UNCHANGED <<stash, operations, now, next_id, writes, catvars, pass>>

\* SyncService::sync, a pass in which the upsert of task id returns Err
\* (the connection drops, or the row violates a constraint of the remote)
SyncErr(id) ==
    /\ id \in DOMAIN todos
    /\ todos[id].sync_status = "pending"
    /\ LET r == sync_failing(todos, remote, {id})
       IN  /\ todos' = r.todos
           /\ remote' = r.remote
           /\ last' = [L(IF r.failed THEN "sync_err" ELSE "sync", id, 0) EXCEPT
                          !.pre_todos = todos, !.pre_remote = remote,
                          !.uploaded = r.uploaded, !.downloaded = r.downloaded,
                          !.conflicts = r.conflicts]
    /\ track' = NoTrack
    /\ streak' = NoStreak
    /\ UNCHANGED <<stash, operations, now, next_id, writes, catvars, pass>>

\* SyncService::sync of a service built without a database URL (remote: None)
SyncUnconfigured ==
    /\ LET r == sync_service(NoneOpt, todos)
       IN  /\ todos' = r.todos
           /\ last' = [L(IF r.ok THEN "sync" ELSE "sync_unconfigured", 0, 0) EXCEPT
                          !.pre_todos = todos]
    /\ track' = NoTrack
    /\ streak' = NoStreak
    /\ UNCHANGED <<stash, operations, remote, now, next_id, writes, catvars, pass>>

\* SyncService::sync, a pass in which the local write of remote task id
\* returns Err in the download loop
SyncPullErr(id) ==
    /\ LET r == sync_pull_failing(todos, remote, {id})
       IN  /\ r.failed
           /\ todos' = r.todos
           /\ remote' = r.remote
           /\ last' = [L("sync_pull_err", id, 0) EXCEPT
                          !.pre_todos = todos, !.pre_remote = remote,
                          !.uploaded = r.uploaded, !.downloaded = r.downloaded,
                          !.conflicts = r.conflicts]
    /\ track' = NoTrack
    /\ streak' = NoStreak
    /\ UNCHANGED <<stash, operations, now, next_id, writes, catvars, pass>>

\* ------------------------------------------- commands/edit.rs, --category
\* get_or_create_category, then the update of run with the category set
EditCategoryCmd(id, name) ==
    /\ now < MaxTime
    /\ id \in DOMAIN todos
    /\ Len(operations) < MaxLog
    /\ LET existing == get_category_by_name(categories, name)
           cat_id == IF existing # NoCategory THEN existing ELSE next_cat
           prev_state == todos[id]
           todo == [prev_state EXCEPT !.category_id = cat_id,
                                      !.updated_at = now + 1,
                                      !.sync_status = "pending"]
       IN  /\ existing = NoCategory => next_cat <= MaxCats
           /\ categories' = IF existing # NoCategory THEN categories
                            ELSE create_category(categories, cat_id, name)
           /\ next_cat' = IF existing # NoCategory THEN next_cat ELSE next_cat + 1
           /\ todos' = update_todo(todos, id, todo)
           /\ operations' = record_operation(operations,
                  Operation_new("update", id, Some(prev_state), Some(todo), now + 1))
           /\ track' = Recorded("update", id, Some(prev_state), get_todo(todos', id))
           /\ streak' = NoStreak
    /\ now' = now + 1
    /\ last' = L("edit_category", id, Len(operations) + 1)
    /\ UNCHANGED <<stash, remote, next_id, writes, foreign_keys, pass>>

\* ------------------------------------------------ tui/app.rs, categories
\* App::delete_selected_category: clear_category_from_todos, delete_category
DeleteSelectedCategory(c) ==
    /\ c \in DOMAIN categories
    /\ todos' = clear_category_from_todos(todos, c)
    /\ categories' = delete_category(categories, c)
    /\ last' = L("category_delete", c, 0)
    /\ track' = NoTrack
    /\ streak' = NoStreak
    /\ UNCHANGED <<stash, operations, remote, now, next_id, writes,
                   next_cat, foreign_keys, pass>>

\* ------------------------------------------------------ commands/import.rs
Importing(tbl, cats) == [ok |-> TRUE, todos |-> tbl, categories |-> cats]

\* for category in data.categories { match (existing, mode) ... }
RECURSIVE ImportCategories(_, _, _, _)
ImportCategories(entries, mode, fk, st) ==
    IF entries = <<>> THEN st
    ELSE LET category == Head(entries)
             existing == get_category_by_name(st.categories, category.name)
         IN  IF existing # NoCategory /\ mode = "merge"
             THEN ImportCategories(Tail(entries), mode, fk, st)
             ELSE IF existing # NoCategory /\ delete_category_fails(st.todos, fk, existing)
             THEN [st EXCEPT !.ok = FALSE]
             ELSE LET cats == IF existing # NoCategory
                              THEN delete_category(st.categories, existing)
                              ELSE st.categories
                  IN  IF create_category_fails(cats, category.id)
                      THEN [st EXCEPT !.ok = FALSE, !.categories = cats]
                      ELSE ImportCategories(Tail(entries), mode, fk,
                              [st EXCEPT !.categories =
                                  create_category(cats, category.id, category.name)])

\* for todo in data.todos { match (existing, mode) ... }
RECURSIVE ImportTodos(_, _, _, _)
ImportTodos(entries, mode, fk, st) ==
    IF entries = <<>> THEN st
    ELSE LET e == Head(entries)
         IN  IF e.id \in DOMAIN st.todos /\ mode = "merge"
             THEN ImportTodos(Tail(entries), mode, fk, st)
             ELSE IF fk_fails(st.categories, fk, e.todo)
             THEN [st EXCEPT !.ok = FALSE]
             ELSE ImportTodos(Tail(entries), mode, fk,
                     [st EXCEPT !.todos =
                         IF e.id \in DOMAIN st.todos
                         THEN update_todo(st.todos, e.id, e.todo)
                         ELSE create_todo(st.todos, e.id, e.todo)])

\* import_todos: the categories of the file first, then its todos; an Err
\* leaves the function at once
import_todos(tbl, cats, fk, mode, data) ==
    LET st == ImportCategories(data.categories, mode, fk, Importing(tbl, cats))
    IN  IF st.ok THEN ImportTodos(data.todos, mode, fk, st) ELSE st

\* the files of the runs: at most one category, minted by this store or by
\* another one (next_cat), and at most one todo, an export of a task of
\* this store
ImportFiles ==
    {[categories |-> cs, todos |-> ts] :
        cs \in {<<>>} \cup {<<[id |-> c, name |-> n]>> :
                   c \in 1..next_cat, n \in CatNames},
        ts \in {<<>>} \cup {<<[id |-> id, todo |-> todos[id]]>> : id \in DOMAIN todos}}

\* commands/import.rs run: parse the mode, import_todos
ImportCmd(mode, data) ==
    /\ \A k \in 1..Len(data.categories) : data.categories[k].id <= MaxCats
    /\ LET r == import_todos(todos, categories, foreign_keys, mode, data)
       IN  /\ todos' = r.todos
           /\ categories' = r.categories
           /\ last' = [L(IF r.ok THEN "import" ELSE "import_err", 0, 0) EXCEPT
                          !.arg = Some([mode |-> mode, data |-> data])]
    /\ next_cat' = IF \E k \in 1..Len(data.categories) : data.categories[k].id = next_cat
                   THEN next_cat + 1 ELSE next_cat
    /\ track' = NoTrack
    /\ streak' = NoStreak
    /\ UNCHANGED <<stash, operations, remote, now, next_id, writes,
                   foreign_keys, pass>>

\* ------------------------------------- sync.rs, one await of sync() at a time
\* let pending = self.local.list_pending_sync().await: the rows as read now
SyncList ==
    /\ pass.pc = "idle"
    /\ LET ids == list_pending_sync(todos)
       IN  pass' = [pc |-> "upsert",
                    pending |-> [k \in 1..Len(ids) |-> [id |-> ids[k], todo |-> todos[ids[k]]]],
                    uploaded |-> 0]
    /\ last' = L("sync_list", 0, 0)
    /\ track' = NoTrack
    /\ streak' = NoStreak
    /\ UNCHANGED <<todos, stash, operations, remote, now, next_id, writes, catvars>>

\* remote.upsert_todo(&todo).await? with the row that was read by SyncList
SyncUpsert ==
    /\ pass.pc = "upsert"
    /\ pass.pending # <<>>
    /\ remote' = upsert_todo(remote, Head(pass.pending).id, Head(pass.pending).todo)
    /\ pass' = [pass EXCEPT !.pc = "mark"]
    /\ last' = L("sync_upsert", Head(pass.pending).id, 0)
    /\ track' = NoTrack
    /\ streak' = NoStreak
    /\ UNCHANGED <<todos, stash, operations, now, next_id, writes, catvars>>

\* self.local.mark_synced(todo.id).await; result.uploaded += 1
SyncMark ==
    /\ pass.pc = "mark"
    /\ todos' = mark_synced(todos, Head(pass.pending).id)
    /\ pass' = [pass EXCEPT !.pc = "upsert", !.pending = Tail(@),
                            !.uploaded = @ + 1]
    /\ last' = L("sync_mark", Head(pass.pending).id, 0)
    /\ track' = NoTrack
    /\ streak' = NoStreak
    /\ UNCHANGED <<stash, operations, remote, now, next_id, writes, catvars>>

\* the download loop, after the last pending row; sync() returns
SyncDownload ==
    /\ pass.pc = "upsert"
    /\ pass.pending = <<>>
    /\ LET r == SyncPull(get_todos_since(remote, get_last_sync_time),
                    [todos |-> todos, remote |-> remote, uploaded |-> pass.uploaded,
                     downloaded |-> 0, conflicts |-> 0])
       IN  /\ todos' = r.todos
           /\ last' = [L("sync_return", 0, 0) EXCEPT
                          !.uploaded = r.uploaded, !.downloaded = r.downloaded,
                          !.conflicts = r.conflicts]
    /\ pass' = Idle
    /\ track' = NoTrack
    /\ streak' = NoStreak
    /\ UNCHANGED <<stash, operations, remote, now, next_id, writes, catvars>>

\* ------------------------------------------------ other clients of the remote
\* another client's sync pushes its version of a task: a task it created
\* (a fresh id) or its edit of a row it pulled
RemoteClientUpsert(id, title, done, ts) ==
    /\ writes < MaxRemoteWrites
    /\ \/ id \in DOMAIN remote
       \/ id = next_id /\ next_id <= MaxIds
    /\ LET todo == [title |-> title, is_completed |-> done,
                    completed_at |-> IF done THEN ts ELSE NoTime,
                    created_at |-> IF id \in DOMAIN remote
                                   THEN remote[id].created_at ELSE ts,
                    updated_at |-> ts, sync_status |-> "pending",
                    category_id |-> NoCategory]
       IN  /\ remote' = upsert_todo(remote, id, todo)
           /\ last' = [L("remote_upsert", id, 0) EXCEPT !.arg = Some(todo)]
    /\ next_id' = IF id = next_id THEN next_id + 1 ELSE next_id
    /\ writes' = writes + 1
    /\ track' = NoTrack
    /\ streak' = NoStreak
    /\ UNCHANGED <<todos, stash, operations, now, catvars, pass>>

\* RemoteDb::soft_delete_todo, stamped with the server's NOW()
RemoteSoftDelete(id, ts) ==
    /\ writes < MaxRemoteWrites
    /\ id \in DOMAIN remote
    /\ remote' = soft_delete_todo(remote, id, ts)
    /\ last' = L("remote_soft_delete", id, 0)
    /\ writes' = writes + 1
    /\ track' = NoTrack
    /\ streak' = NoStreak
    /\ UNCHANGED <<todos, stash, operations, now, next_id, catvars, pass>>

\* --------------------------------------------------------------------- spec
\* every handler, on a store that holds up to MaxTaskIds tasks
Next ==
    \/ \E title \in Titles : next_id <= MaxTaskIds /\ AddCmd(title)
    \/ \E title \in Titles : next_id <= MaxTaskIds /\ TuiAdd(title)
    \/ \E id \in Ids : TuiDelete(id)
    \/ \E id \in Ids, title \in Titles : EditCmd(id, title)
    \/ \E id \in Ids : DoneCmd(id)
    \/ \E id \in Ids : StashPush(id)
    \/ StashPop
    \/ Undo
    \/ Redo
    \/ Sync
    \/ \E id \in 1..MaxTaskIds, title \in Titles, done \in BOOLEAN, ts \in Times :
          RemoteClientUpsert(id, title, done, ts)
    \/ \E id \in Ids, ts \in Times : RemoteSoftDelete(id, ts)

Spec == Init /\ [][Next]_vars

\* the local store with a remote that other clients write to: no undo, no stash
NextSync ==
    \/ \E title \in Titles : AddCmd(title)
    \/ \E id \in Ids, title \in Titles : EditCmd(id, title)
    \/ \E id \in Ids : DoneCmd(id)
    \/ Sync
    \/ \E id \in Ids, title \in Titles, done \in BOOLEAN, ts \in Times :
          RemoteClientUpsert(id, title, done, ts)
    \/ \E id \in Ids, ts \in Times : RemoteSoftDelete(id, ts)

SpecSync == Init /\ [][NextSync]_vars

\* the same, with sync passes in which an upsert or a local write fails, and
\* with local deletions (so that a pass has several tasks to pull)
NextSyncErr ==
    \/ NextSync
    \/ \E id \in Ids : SyncErr(id)
    \/ \E id \in Ids : SyncPullErr(id)
    \/ \E id \in Ids : TuiDelete(id)

SpecSyncErr == Init /\ [][NextSyncErr]_vars

\* the local store alone: the commands, the operation log, undo and redo
NextUndo ==
    \/ \E title \in Titles : AddCmd(title)
    \/ \E title \in Titles : TuiAdd(title)
    \/ \E id \in Ids : TuiDelete(id)
    \/ \E id \in Ids, title \in Titles : EditCmd(id, title)
    \/ \E id \in Ids : DoneCmd(id)
    \/ \E id \in Ids : StashPush(id)
    \/ StashPop
    \/ Undo
    \/ Redo

SpecUndo == Init /\ [][NextUndo]_vars

\* the local store with its log, sync passes and garbage collection
NextGc ==
    \/ NextUndo
    \/ Sync
    \/ \E days \in 0..MaxGcDays : Gc(days)

SpecGc == Init /\ [][NextGc]_vars

\* a store opened with MaxIds tasks on disk, written by earlier runs (tick 0
\* is the time before the first run of the behaviour); at most one of them
\* is in the stash, since every stash_todo call reads a time of its own
InitStash ==
    /\ \E S \in SUBSET Ids :
          /\ Cardinality(S) <= 1
          /\ todos = [id \in Ids \ S |-> Todo_new(IF id = 1 THEN "a" ELSE "b", 0)]
          /\ stash = [id \in S |-> [todo |-> Todo_new(IF id = 1 THEN "a" ELSE "b", 0),
                                    stashed_at |-> 0]]
    /\ operations = <<>>
    /\ remote = NoTable
    /\ now = 0
    /\ next_id = MaxIds + 1
    /\ writes = 0
    /\ categories = NoTable
    /\ next_cat = 1
    /\ foreign_keys = TRUE
    /\ last = L("init", 0, 0)
    /\ track = NoTrack
    /\ streak = NoStreak
    /\ pass = Idle

\* stash pushes and pops, with the commands that change the rows they move
NextStash ==
    \/ \E id \in Ids : StashPush(id)
    \/ StashPop
    \/ \E id \in Ids, title \in Titles : EditCmd(id, title)
    \/ \E id \in Ids : DoneCmd(id)

SpecStash == InitStash /\ [][NextStash]_vars

\* the local commands with a sync service that has no remote configured
NextOffline ==
    \/ \E title \in Titles : AddCmd(title)
    \/ \E id \in Ids, title \in Titles : EditCmd(id, title)
    \/ \E id \in Ids : DoneCmd(id)
    \/ SyncUnconfigured

SpecOffline == Init /\ [][NextOffline]_vars

\* a store opened with MaxIds tasks on disk (tick 0), no category yet; the
\* enforcement of REFERENCES is a setting of the SQLite connection made by
\* the sqlx dependency, outside this source tree: both settings are run
InitCategory ==
    /\ todos = [id \in Ids |-> Todo_new(IF id = 1 THEN "a" ELSE "b", 0)]
    /\ stash = NoTable
    /\ operations = <<>>
    /\ remote = NoTable
    /\ now = 0
    /\ next_id = MaxIds + 1
    /\ writes = 0
    /\ categories = NoTable
    /\ next_cat = 1
    /\ foreign_keys \in BOOLEAN
    /\ last = L("init", 0, 0)
    /\ track = NoTrack
    /\ streak = NoStreak
    /\ pass = Idle

\* the commands that write categories and category references
NextCategory ==
    \/ \E id \in Ids, name \in CatNames : EditCategoryCmd(id, name)
    \/ \E c \in CatIds : DeleteSelectedCategory(c)
    \/ \E mode \in {"merge", "replace"} : \E data \in ImportFiles : ImportCmd(mode, data)

SpecCategory == InitCategory /\ [][NextCategory]_vars

\* a sync() whose awaits interleave with the commands of another process on
\* the same database file
NextRace ==
    \/ \E title \in Titles : AddCmd(title)
    \/ \E id \in Ids, title \in Titles : EditCmd(id, title)
    \/ SyncList
    \/ SyncUpsert
    \/ SyncMark
    \/ SyncDownload

SpecRace == Init /\ [][NextRace]_vars

\* one client that edits, completes, undoes in the TUI and syncs; nobody else
\* writes to the remote
NextTui ==
    \/ \E title \in Titles : AddCmd(title)
    \/ \E id \in Ids, title \in Titles : EditCmd(id, title)
    \/ \E id \in Ids : DoneCmd(id)
    \/ TuiUndo
    \/ Sync

SpecTui == Init /\ [][NextTui]_vars

\* the commands that set and delete categories, with undo and redo of the
\* edits that set them
NextCategoryUndo ==
    \/ \E id \in Ids, name \in CatNames : EditCategoryCmd(id, name)
    \/ \E c \in CatIds : DeleteSelectedCategory(c)
    \/ Undo
    \/ Redo

SpecCategoryUndo == InitCategory /\ [][NextCategoryUndo]_vars

TypeOK ==
    /\ DOMAIN todos \subseteq Ids
    /\ DOMAIN remote \subseteq Ids
    /\ DOMAIN stash \subseteq Ids
    /\ now \in 0..MaxTime
    /\ Len(operations) <= MaxLog

\* ------------------------------------------------------------------ claims
AfterSync == last.kind = "sync"

\* the values of a task apart from its sync-state tag
Values(todo) == [todo EXCEPT !.sync_status = "synced"]

\* ids that were Pending locally and had a remote row when the pass started
DirtyWithRemote ==
    {id \in DOMAIN last.pre_todos \cap DOMAIN last.pre_remote :
        last.pre_todos[id].sync_status = "pending"}

\* C1: a task that is Pending when sync() starts, with a remote row of the
\* same id, has the same field values after the pass as before it
C1_PendingNeverOverwritten ==
    AfterSync =>
        \A id \in DirtyWithRemote :
            /\ id \in DOMAIN todos
            /\ Values(todos[id]) = Values(last.pre_todos[id])

\* ids that were Pending locally and newer than their live remote row
DirtyAndNewer ==
    {id \in DirtyWithRemote :
        /\ last.pre_remote[id].deleted_at = NoTime
        /\ last.pre_remote[id].updated_at < last.pre_todos[id].updated_at}

\* C2: local A Pending at T2, remote A at T1 < T2: after sync() the local
\* title of A is unchanged and the pass reports conflicts = 1
C2_ConflictCounted ==
    AfterSync /\ Cardinality(DirtyAndNewer) = 1 =>
        /\ \A id \in DirtyAndNewer :
              id \in DOMAIN todos /\ todos[id].title = last.pre_todos[id].title
        /\ last.conflicts = 1

\* ids that were Synced locally and older than their live remote row
CleanAndOlder ==
    {id \in DOMAIN last.pre_todos \cap DOMAIN last.pre_remote :
        /\ last.pre_todos[id].sync_status = "synced"
        /\ last.pre_remote[id].deleted_at = NoTime
        /\ last.pre_remote[id].updated_at > last.pre_todos[id].updated_at}

\* C3: local B Synced at T1, live remote B at T2 > T1: after sync() every
\* field of local B equals the remote row's, B is Synced, downloaded >= 1
C3_RemoteWins ==
    AfterSync =>
        \A id \in CleanAndOlder :
            /\ id \in DOMAIN todos /\ id \in DOMAIN remote
            /\ remote[id] = last.pre_remote[id]
            /\ todos[id] = RemoteTodo(remote[id])
            /\ todos[id].sync_status = "synced"
            /\ last.downloaded >= 1

C3_Witness ==
    /\ AfterSync
    /\ \E id \in CleanAndOlder :
          /\ last.pre_todos[id].title # last.pre_remote[id].title
          /\ last.pre_todos[id].is_completed # last.pre_remote[id].is_completed

\* ids that were Pending locally with no remote row when the pass started
DirtyAndNew ==
    {id \in DOMAIN last.pre_todos \ DOMAIN last.pre_remote :
        last.pre_todos[id].sync_status = "pending"}

InSeq(x, seq) == \E k \in 1..Len(seq) : seq[k] = x

\* C4: a Pending local task with no remote row is Synced after sync() and
\* is returned by the remote's get_todos_since(epoch)
C4_PendingUploaded ==
    AfterSync =>
        \A id \in DirtyAndNew :
            /\ id \in DOMAIN todos
            /\ todos[id].sync_status = "synced"
            /\ InSeq(id, get_todos_since(remote, NoTime))
            /\ remote[id].title = last.pre_todos[id].title

C4_Witness ==
    /\ AfterSync
    /\ \E id \in DirtyAndNew : last.pre_todos[id].is_completed
    /\ last.uploaded = 1

UpsertStep == last'.kind \in {"sync", "remote_upsert"}

\* C5: an upsert changes a stored row only if the incoming updated_at is
\* strictly greater than the stored one, so under every interleaving of the
\* clients' upserts a row stays and its updated_at never decreases
C5_UpsertGuard ==
    [][UpsertStep =>
        \A id \in DOMAIN remote :
            /\ id \in DOMAIN remote'
            /\ remote'[id].updated_at >= remote[id].updated_at
            /\ remote'[id] # remote[id] =>
                  remote'[id].updated_at > remote[id].updated_at
            /\ (last'.kind = "remote_upsert" /\ last'.id = id
                   /\ last'.arg[1].updated_at <= remote[id].updated_at) =>
                  remote'[id] = remote[id]]_vars

\* an upsert with the stored timestamp and another title was applied: the
\* stored row kept its title
C5_Witness ==
    /\ last.kind = "remote_upsert"
    /\ last.id \in DOMAIN remote
    /\ last.arg[1].updated_at = remote[last.id].updated_at
    /\ last.arg[1].title # remote[last.id].title
    /\ last.id \in DOMAIN todos

\* C6: after an Update of t from old to new was recorded, undo leaves the
\* row of t equal to old and the redo that follows leaves it equal to new
C6_UndoRedoUpdate ==
    track.kind = "update" =>
        /\ track.stage = "undone" => get_todo(todos, track.id) = track.old
        /\ track.stage = "redone" => get_todo(todos, track.id) = track.new

C6_Witness ==
    /\ track.kind = "update"
    /\ track.stage = "redone"
    /\ track.old[1].title # track.new[1].title
    /\ get_todo(todos, track.id) = track.new

\* C7: after a Create of t was recorded, undo removes t from the main table
\* and the redo that follows re-inserts t with every field as created
C7_UndoRedoCreate ==
    track.kind = "create" =>
        /\ track.stage = "undone" => track.id \notin DOMAIN todos
        /\ track.stage = "redone" => get_todo(todos, track.id) = track.new

C7_Witness ==
    /\ track.kind = "create"
    /\ track.stage = "redone"
    /\ track.id \in DOMAIN todos

UndoStep == last'.kind \in {"undo", "undo_none", "undo_err"}

\* C8: undo acts on the entry with the greatest created_at among the entries
\* with undone = false, whichever entity it targets, and finds none exactly
\* when there is no such entry
C8_UndoGlobalOrder ==
    [][UndoStep =>
        LET U == {i \in 1..Len(operations) : ~operations[i].undone}
        IN  /\ last'.kind = "undo_none" <=> U = {}
            /\ last'.kind # "undo_none" =>
                  /\ last'.op \in U
                  /\ \A j \in U :
                        operations[j].created_at <= operations[last'.op].created_at
            /\ last'.kind = "undo" =>
                  operations' = [operations EXCEPT ![last'.op].undone = TRUE]]_vars

\* undo reverted the latest entry although an older entry of another task
\* is still not undone
C8_Witness ==
    /\ last.kind = "undo"
    /\ operations[last.op].undone
    /\ \E j \in 1..Len(operations) :
          /\ ~operations[j].undone
          /\ operations[j].entity_id # operations[last.op].entity_id
          /\ operations[j].created_at < operations[last.op].created_at

\* C9: the updated_at stored for a task id never decreases
C9_UpdatedAtMonotonic ==
    [][\A id \in DOMAIN todos \cap DOMAIN todos' :
          todos'[id].updated_at >= todos[id].updated_at]_vars

\* C10: every task row has is_completed true exactly when completed_at is present
C10_CompletedIffStamp ==
    \A id \in DOMAIN todos :
        todos[id].is_completed <=> todos[id].completed_at # NoTime

\* a completed task was pulled from the remote into a store that had it open
C10_Witness ==
    /\ AfterSync
    /\ \E id \in DOMAIN todos \cap DOMAIN last.pre_todos :
          /\ todos[id].is_completed
          /\ ~last.pre_todos[id].is_completed
    /\ Len(operations) > 0

\* ids that were Pending when the failed pass started, other than the one
\* whose upsert failed
OtherPending ==
    {id \in DOMAIN last.pre_todos :
        last.pre_todos[id].sync_status = "pending" /\ id # last.id}

\* C11: when the upsert of one Pending task fails, the pass still upserts
\* every other Pending task and marks it Synced
C11_PushContinuesAfterFailure ==
    last.kind = "sync_err" =>
        \A id \in OtherPending :
            /\ id \in DOMAIN remote
            /\ id \in DOMAIN todos /\ todos[id].sync_status = "synced"

\* ids that were live and Synced locally while their remote row carried a tombstone
SyncedAndTombstoned(tbl, rem) ==
    {id \in DOMAIN tbl \cap DOMAIN rem :
        tbl[id].sync_status = "synced" /\ rem[id].deleted_at # NoTime}

\* C12: soft_delete_todo keeps the row, sets the tombstone and last-modified,
\* and the next sync pass of a client that holds the id as a Synced task
\* does not leave its local copy a live, Synced task
C12_TombstoneObserved ==
    [][/\ last'.kind = "remote_soft_delete" =>
             /\ last'.id \in DOMAIN remote'
             /\ remote'[last'.id].deleted_at # NoTime
             /\ remote'[last'.id].updated_at = remote'[last'.id].deleted_at
       /\ last'.kind = "sync" =>
             \A id \in SyncedAndTombstoned(todos, remote) :
                 ~(id \in DOMAIN todos' /\ todos'[id].sync_status = "synced")]_vars

\* delete entries of the log that are in force: not undone, the task was
\* Synced when deleted and is neither in the main table nor in the stash
DeletedSynced(ops, tbl, st) ==
    {i \in 1..Len(ops) :
        /\ ops[i].operation_type = "delete" /\ ~ops[i].undone
        /\ IsSome(ops[i].previous_state)
        /\ ops[i].previous_state[1].sync_status = "synced"
        /\ ops[i].entity_id \notin DOMAIN tbl \cup DOMAIN st}

\* C13: after delete_todo on a Synced task the id is recorded as locally
\* deleted and is not pending, and a later sync pass does not re-create it
C13_DeleteNotRedownloaded ==
    [][/\ last'.kind = "tui_delete" /\ todos[last'.id].sync_status = "synced" =>
             /\ last'.id \in deleted_todos
             /\ ~InSeq(last'.id, list_pending_sync(todos'))
       /\ last'.kind = "sync" =>
             \A i \in DeletedSynced(operations, todos, stash) :
                 operations[i].entity_id \notin DOMAIN todos']_vars

\* the handler runs that changed a task on the caller's request
MutationKinds == {"add", "tui_add", "edit", "done", "tui_delete", "stash_push", "stash_pop"}

\* C14: every caller-initiated mutation of a task is followed by the append
\* of exactly one log entry with undone = false, whose previous-state is the
\* snapshot before the mutation and whose new-state the snapshot after it
C14_EveryMutationRecorded ==
    [][last'.kind \in MutationKinds =>
          /\ Len(operations') = Len(operations) + 1
          /\ SubSeq(operations', 1, Len(operations)) = operations
          /\ LET op == operations'[Len(operations')]
             IN  /\ ~op.undone
                 /\ op.entity_id = last'.id
                 /\ op.previous_state = get_todo(todos, last'.id)
                 /\ op.new_state = get_todo(todos', last'.id)]_vars

\* C15: a log entry lacks its previous-state only if it is a Create and
\* lacks its new-state only if it is a Delete
C15_SnapshotsPresent ==
    \A i \in 1..Len(operations) :
        /\ ~IsSome(operations[i].previous_state) => operations[i].operation_type = "create"
        /\ ~IsSome(operations[i].new_state) => operations[i].operation_type = "delete"

\* the entries of ops are those of old, in order, up to their undone flags
SameButFlags(old, ops) ==
    /\ Len(ops) >= Len(old)
    /\ \A i \in 1..Len(old) : [ops[i] EXCEPT !.undone = old[i].undone] = old[i]

RedoStep == last'.kind \in {"redo", "redo_none", "redo_err"}

\* C17: recording a new operation leaves every entry already in the log as
\* it was, so an undone entry stays the one redo picks; redo of an undone
\* Update writes that entry's new-state over the row, whatever a newer
\* operation made of the task
C17_StaleRedo ==
    [][/\ Len(operations') = Len(operations) + 1 =>
             /\ SubSeq(operations', 1, Len(operations)) = operations
             /\ Flagged(operations, TRUE) # {} =>
                   get_last_redoable_operation(operations')
                       = get_last_redoable_operation(operations)
       /\ RedoStep =>
             /\ last'.kind = "redo_none" <=> Flagged(operations, TRUE) = {}
             /\ (/\ last'.kind = "redo"
                 /\ operations[last'.op].operation_type = "update"
                 /\ last'.id \in DOMAIN todos) =>
                   /\ operations[last'.op].undone
                   /\ todos'[last'.id] =
                         [operations[last'.op].new_state[1] EXCEPT
                             !.created_at = todos[last'.id].created_at]]_vars

\* redo re-applied an Update although a newer entry, still in force, had
\* given the same task another title
C17_Witness ==
    /\ last.kind = "redo"
    /\ operations[last.op].operation_type = "update"
    /\ last.id \in DOMAIN todos
    /\ todos[last.id].title = operations[last.op].new_state[1].title
    /\ \E j \in 1..Len(operations) :
          /\ ~operations[j].undone
          /\ operations[j].entity_id = last.id
          /\ operations[j].created_at > operations[last.op].created_at
          /\ operations[j].operation_type = "update"
          /\ operations[j].new_state[1].title # todos[last.id].title

\* C18: mark_operation_undone and mark_operation_redone change the undone
\* flag of the entry they are given and nothing else: not its snapshots,
\* kind, target or creation timestamp, no other entry, no task or stash row
C18_MarkFlipsFlagOnly ==
    [][/\ \A i \in 1..Len(operations) :
             /\ mark_operation_undone(operations, i)
                    = [operations EXCEPT ![i].undone = TRUE]
             /\ mark_operation_redone(operations, i)
                    = [operations EXCEPT ![i].undone = FALSE]
       /\ last'.kind \in {"undo", "redo"} =>
             /\ operations' = [operations EXCEPT
                                  ![last'.op].undone = (last'.kind = "undo")]
             /\ stash' = stash
             /\ operations[last'.op].operation_type = "unstash" => todos' = todos]_vars

\* undo marked an Unstash entry, which it cannot revert, next to another entry
C18_Witness ==
    /\ last.kind = "undo"
    /\ operations[last.op].operation_type = "unstash"
    /\ operations[last.op].undone
    /\ \E j \in 1..Len(operations) : j # last.op /\ ~operations[j].undone

PopStep == last'.kind \in {"stash_pop", "stash_pop_none", "stash_pop_err"}

\* C19: after stash push(t) the main table does not hold t's id; a pop that
\* follows with nothing in between returns t, leaves in the main table a row
\* equal in every field to t as it was before the push, and leaves no stash
\* entry of t
C19_StashRoundTrip ==
    [][last.kind = "stash_push" =>
          /\ last.id \notin DOMAIN todos
          /\ last.id \in DOMAIN stash
          /\ PopStep =>
                /\ last'.kind = "stash_pop"
                /\ last'.id = last.id
                /\ get_todo(todos', last.id) = Some(last.pre_todos[last.id])
                /\ operations'[Len(operations')].new_state = Some(last.pre_todos[last.id])
                /\ last.id \notin DOMAIN stash']_vars

\* a task came back from the stash as it went in, and the log shows the pair
C19_Witness ==
    /\ last.kind = "stash_pop"
    /\ Len(operations) = 2
    /\ operations[1].operation_type = "stash"
    /\ operations[1].entity_id = last.id
    /\ operations[2].operation_type = "unstash"
    /\ get_todo(todos, last.id) = operations[1].previous_state
    /\ stash = NoTable

\* C20: a pop on an empty stash returns none and changes nothing; any other
\* pop returns the entry with the latest stash timestamp among those in the
\* stash, removes it and reinserts its task into the main table
C20_StashLifo ==
    [][PopStep =>
          IF DOMAIN stash = {}
          THEN /\ last'.kind = "stash_pop_none"
               /\ UNCHANGED <<todos, stash, operations>>
          ELSE /\ last'.kind = "stash_pop"
               /\ last'.id \in DOMAIN stash
               /\ \A j \in DOMAIN stash :
                     stash[j].stashed_at <= stash[last'.id].stashed_at
               /\ DOMAIN stash' = DOMAIN stash \ {last'.id}
               /\ \A j \in DOMAIN stash' : stash'[j] = stash[j]
               /\ DOMAIN todos' = DOMAIN todos \cup {last'.id}
               /\ todos'[last'.id] = stash[last'.id].todo
               /\ \A j \in DOMAIN todos : todos'[j] = todos[j]]_vars

\* the task stashed last was popped while a task stashed earlier, with a
\* greater id, stays in the stash
C20_Witness ==
    /\ last.kind = "stash_pop"
    /\ last.id \in DOMAIN todos
    /\ \E j \in DOMAIN stash : j > last.id

PushStep == last'.kind \in {"stash_push", "stash_push_err"}

\* C21: stash_todo(id) fails exactly when id is not in the main table or is
\* already in the stash, and then changes neither table; when it succeeds
\* the task has left the main table and the stash has one more entry, which
\* holds the task as it was
C21_StashPushGuard ==
    [][/\ \A id \in Ids :
             LET r == stash_todo(todos, stash, id, now + 1)
             IN  /\ ~r.ok <=> (id \notin DOMAIN todos \/ id \in DOMAIN stash)
                 /\ ~r.ok => r.todos = todos /\ r.stash = stash
                 /\ r.ok =>
                       /\ r.todos = Restrict(todos, DOMAIN todos \ {id})
                       /\ DOMAIN r.stash = DOMAIN stash \cup {id}
                       /\ r.stash[id].todo = todos[id]
                       /\ \A j \in DOMAIN stash : r.stash[j] = stash[j]
       /\ PushStep =>
             LET r == stash_todo(todos, stash, last'.id, now + 1)
             IN  /\ (last'.kind = "stash_push") = r.ok
                 /\ todos' = r.todos
                 /\ stash' = r.stash]_vars

\* a push was refused because the task, restored by undo, is still in the stash
C21_Witness ==
    /\ last.kind = "stash_push_err"
    /\ last.id \in DOMAIN todos
    /\ last.id \in DOMAIN stash

\* C23: a service without a remote is not configured, and its sync() returns
\* an error and changes no row of the local store
C23_UnconfiguredSyncFails ==
    [][/\ ~is_configured(NoneOpt)
       /\ ~sync_service(NoneOpt, todos).ok
       /\ sync_service(NoneOpt, todos).todos = todos
       /\ last'.kind \in {"sync", "sync_unconfigured"} =>
             /\ last'.kind = "sync_unconfigured"
             /\ UNCHANGED <<todos, stash, operations, remote>>]_vars

\* sync() was refused while an edited task was waiting to be uploaded
C23_Witness ==
    /\ last.kind = "sync_unconfigured"
    /\ \E id \in DOMAIN todos : todos[id].sync_status = "pending"
    /\ Len(operations) > 0

\* the position of x in seq (0: not in it)
IndexOf(seq, x) ==
    IF InSeq(x, seq) THEN CHOOSE k \in 1..Len(seq) : seq[k] = x ELSE 0

\* the row of id as a pass that pushed it leaves it on the remote
Pushed(id) == upsert_todo(last.pre_remote, id, last.pre_todos[id])[id]

\* the local table after a complete push of the pre-pass table
AllMarked == [id \in DOMAIN last.pre_todos |->
                 [last.pre_todos[id] EXCEPT !.sync_status = "synced"]]

C25_FailedOpLeavesStore ==
    [][last'.kind \in {"stash_push_err", "stash_pop_err"} =>
          /\ UNCHANGED <<todos, stash>>
          /\ last'.kind = "stash_pop_err" => last'.id \in DOMAIN stash']_vars

\* the tasks the program hands to create_todo: a new task, a pulled remote
\* task, a stashed snapshot
Given ==
    {Todo_new(title, now + 1) : title \in Titles}
        \cup {RemoteTodo(remote[i]) : i \in DOMAIN remote}
        \cup {stash[i].todo : i \in DOMAIN stash}

\* the ids a step adds to the main table
Created == (DOMAIN todos') \ (DOMAIN todos)

CreateFailsOnExisting ==
    /\ \A id \in Ids : create_todo_fails(todos, id) <=> id \in DOMAIN todos
    /\ last'.kind \in {"stash_pop_err", "undo_err", "redo_err"} => todos' = todos

\* C26 as stated: create of an existing id fails and leaves the row
\* unchanged; create of a fresh id persists the task with sync state Pending
C26_CreatePending ==
    [][/\ CreateFailsOnExisting
       /\ \A id \in Created : todos'[id].sync_status = "pending"]_vars

\* C26, amended: create of an existing id fails and leaves the row unchanged;
\* create of a fresh id persists the task as given, with the sync state it
\* carries: Pending for a new task, Synced for a task the pull inserts
C26_CreateKeepsState ==
    [][/\ CreateFailsOnExisting
       /\ \A id \in Ids \ DOMAIN todos : \A t \in Given :
             LET n == create_todo(todos, id, t)
             IN  /\ DOMAIN n = DOMAIN todos \cup {id}
                 /\ n[id] = t
                 /\ \A j \in DOMAIN todos : n[j] = todos[j]
       /\ \A id \in Created :
             /\ last'.kind \in {"add", "tui_add"} =>
                   todos'[id].sync_status = "pending"
             /\ last'.kind = "sync" =>
                   /\ todos'[id] = RemoteTodo(remote'[id])
                   /\ todos'[id].sync_status = "synced"
             /\ last'.kind = "stash_pop" => todos'[id] = stash[id].todo]_vars

\* a pass has inserted a remote task that was not in the main table
C26_Witness ==
    /\ last.kind = "sync"
    /\ \E id \in DOMAIN todos \ DOMAIN last.pre_todos :
          todos[id].sync_status = "synced"

\* the versions of a task created at tick c that a client can push
Versions(c) ==
    {[title |-> title, is_completed |-> done,
      completed_at |-> IF done THEN ts ELSE NoTime,
      created_at |-> c, updated_at |-> ts, sync_status |-> "pending",
      category_id |-> NoCategory] :
        title \in Titles, done \in BOOLEAN, ts \in Times}

\* the columns an upsert writes are those of version v
HoldsVersion(row, v) ==
    /\ row.title = v.title
    /\ row.is_completed = v.is_completed
    /\ row.completed_at = v.completed_at
    /\ row.updated_at = v.updated_at

\* C27: upserting the same task twice leaves the remote as upserting it
\* once; two versions of one id with distinct last-modified timestamps
\* leave the same remote in either order, and the row then holds the version
\* with the greater timestamp (unless the row the remote already had is at
\* least as new, which then stays)
C27_UpsertIdempotentLww ==
    \A id \in Ids, c \in Times :
        /\ \A v \in Versions(c) :
              upsert_todo(upsert_todo(remote, id, v), id, v)
                  = upsert_todo(remote, id, v)
        /\ \A v1, v2 \in Versions(c) :
              v1.updated_at < v2.updated_at =>
                  LET r12 == upsert_todo(upsert_todo(remote, id, v1), id, v2)
                      r21 == upsert_todo(upsert_todo(remote, id, v2), id, v1)
                  IN  /\ r12 = r21
                      /\ \A j \in DOMAIN remote \ {id} : r12[j] = remote[j]
                      /\ IF id \in DOMAIN remote
                            /\ remote[id].updated_at >= v2.updated_at
                         THEN r12[id] = remote[id]
                         ELSE HoldsVersion(r12[id], v2)

\* an older version of a task reached the remote after a newer one
C27_Witness ==
    /\ last.kind = "remote_upsert"
    /\ last.id \in DOMAIN remote
    /\ last.arg[1].updated_at < remote[last.id].updated_at
    /\ last.arg[1].title # remote[last.id].title

\* C28: get_todos_since(ts) returns exactly the remote tasks without a
\* tombstone whose last-modified is strictly greater than ts, each once, in
\* ascending last-modified order; a task modified at ts itself is not returned
C28_ChangesSince ==
    \A since \in {NoTime} \cup Times :
        LET res == get_todos_since(remote, since)
        IN  /\ {res[k] : k \in 1..Len(res)} =
                  {id \in DOMAIN remote :
                      /\ remote[id].deleted_at = NoTime
                      /\ remote[id].updated_at > since}
            /\ \A k, l \in 1..Len(res) :
                  k < l => /\ res[k] # res[l]
                           /\ remote[res[k]].updated_at <= remote[res[l]].updated_at
            /\ \A id \in DOMAIN remote :
                  remote[id].updated_at = since => ~InSeq(id, res)

\* after a pass the remote holds two live tasks modified at different ticks:
\* asked for the changes since the earlier tick it returns the later task only
C28_Witness ==
    /\ last.kind = "sync"
    /\ \E i, j \in DOMAIN remote :
          /\ remote[i].deleted_at = NoTime
          /\ remote[j].deleted_at = NoTime
          /\ remote[i].updated_at < remote[j].updated_at
          /\ get_todos_since(remote, remote[i].updated_at) = <<j>>

\* the tasks of the main table that wait for a push
PendingIds == {id \in DOMAIN todos : todos[id].sync_status = "pending"}

\* C29: a task is created (Pending) and synced against an empty remote: the
\* pass returns uploaded = 1 and leaves the task Synced; an edit of its title
\* makes it Pending again; the undo of that edit stores the first title again
C29_EndToEnd ==
    [][/\ last'.kind \in {"add", "tui_add"} =>
             \A id \in Created : todos'[id].sync_status = "pending"
       /\ last'.kind = "sync" /\ remote = NoTable /\ Cardinality(PendingIds) = 1 =>
             /\ last'.uploaded = 1
             /\ \A id \in PendingIds :
                   /\ todos'[id] = [todos[id] EXCEPT !.sync_status = "synced"]
                   /\ remote'[id].title = todos[id].title
       /\ last'.kind = "edit" /\ todos[last'.id].sync_status = "synced" =>
             /\ todos'[last'.id].sync_status = "pending"
             /\ get_todo(todos', last'.id) = track'.new
       /\ (/\ last'.kind = "undo"
           /\ track.kind = "update" /\ track.stage = "recorded"
           /\ track.old[1].sync_status = "synced") =>
             /\ track.id \in DOMAIN todos'
             /\ todos'[track.id].title = track.old[1].title]_vars

\* the end of the scenario: the task was pushed with its first title, edited
\* to another title, and the edit has been undone
C29_Witness ==
    /\ last.kind = "undo"
    /\ track.kind = "update" /\ track.stage = "undone"
    /\ track.old[1].sync_status = "synced"
    /\ track.new[1].sync_status = "pending"
    /\ track.old[1].title # track.new[1].title
    /\ writes = 0
    /\ track.id \in DOMAIN remote
    /\ remote[track.id].title = track.old[1].title
    /\ todos[track.id].title = track.old[1].title

\* C30: undo with no entry of undone = FALSE in the log, and redo with no
\* entry of undone = TRUE, return Ok and change no task, stash or log row
C30_NothingToUndoRedo ==
    [][/\ Flagged(operations, FALSE) = {} <=> get_last_undoable_operation(operations) = 0
       /\ Flagged(operations, TRUE) = {} <=> get_last_redoable_operation(operations) = 0
       /\ last'.kind \in {"undo", "undo_err"} => Flagged(operations, FALSE) # {}
       /\ last'.kind \in {"redo", "redo_err"} => Flagged(operations, TRUE) # {}
       /\ last'.kind = "undo_none" =>
             /\ Flagged(operations, FALSE) = {}
             /\ UNCHANGED <<todos, stash, operations>>
       /\ last'.kind = "redo_none" =>
             /\ Flagged(operations, TRUE) = {}
             /\ UNCHANGED <<todos, stash, operations>>]_vars

\* redo was run on a store that holds a task and a log with no undone entry
C30_Witness ==
    /\ last.kind = "redo_none"
    /\ Len(operations) > 0
    /\ todos # NoTable

\* no task of the main table references a category that is not in the table
NoDangling(tbl, cats) ==
    \A id \in DOMAIN tbl :
        tbl[id].category_id = NoCategory \/ tbl[id].category_id \in DOMAIN cats

\* C22: a category deletion (the interactive delete, the import in replace
\* mode) first clears the reference of every task that points to the
\* category and then removes the row; once it is done no task references a
\* category that is not in the table
C22_CategoryDeletion ==
    [][/\ \A c \in (DOMAIN categories) \ (DOMAIN categories') :
             \A id \in DOMAIN todos :
                todos[id].category_id = c => todos'[id].category_id = NoCategory
       /\ last'.kind = "category_delete" =>
             /\ last'.id \notin DOMAIN categories'
             /\ NoDangling(todos, categories) => NoDangling(todos', categories')
       /\ (/\ last'.kind \in {"import", "import_err"}
           /\ last'.arg[1].mode = "replace"
           /\ last'.arg[1].data.categories # <<>>) =>
             LET category == last'.arg[1].data.categories[1]
                 existing == get_category_by_name(categories, category.name)
             IN  existing # NoCategory =>
                    /\ existing \notin DOMAIN categories' \/ existing = category.id
                    /\ \A id \in DOMAIN todos' :
                          todos'[id].category_id # existing \/ existing = category.id]_vars

\* C31: a second pass right after a successful one, with no local or remote
\* change in between, uploads, downloads and counts nothing and leaves the
\* local and the remote table as they are, although its pull reads every
\* remote task again (get_last_sync_time is the epoch)
C31_SecondSyncNoOp ==
    AfterSync =>
        LET r == sync(todos, remote)
        IN  /\ r.uploaded = 0
            /\ r.downloaded = 0
            /\ r.conflicts = 0
            /\ r.todos = todos
            /\ r.remote = remote
            /\ get_todos_since(remote, get_last_sync_time) # <<>> =>
                  \A id \in DOMAIN remote : remote[id].deleted_at = NoTime =>
                      InSeq(id, get_todos_since(remote, get_last_sync_time))

\* the first pass both uploaded and downloaded a task, so the second pass
\* reads two remote tasks again
C31_Witness ==
    /\ AfterSync
    /\ last.uploaded >= 1
    /\ last.downloaded >= 1
    /\ Len(get_todos_since(remote, get_last_sync_time)) = 2

\* C32: after k consecutive undos followed by k consecutive redos, with no
\* other operation in between, the main table holds exactly what it held
\* before the first undo
C32_UndoRedoRoundTrip ==
    streak.undos >= 1 /\ streak.redos = streak.undos => todos = streak.base

\* C33: when a task is modified locally after sync() has read the pending
\* list and before it marks the task Synced, then after the pass the task is
\* still Pending or its new values are on the remote
C33_EditDuringSync ==
    last.kind = "sync_return" =>
        \A id \in DOMAIN todos :
            \/ todos[id].sync_status = "pending"
            \/ /\ id \in DOMAIN remote
               /\ HoldsVersion(remote[id], todos[id])

\* C34: no task id is in the main table and in the stash at once, also
\* after the undo or redo of a Stash entry
C34_MainStashDisjoint ==
    (DOMAIN todos) \cap (DOMAIN stash) = {}

\* C35: repeated undo, with nothing else in between, reaches "nothing to
\* undo": every undo that finds an undoable entry ends with that entry marked
\* undone, so each one leaves fewer entries to undo
C35_UndoTerminates ==
    [][last'.kind \in {"undo", "undo_err"} =>
          /\ operations'[last'.op].undone
          /\ Cardinality(Flagged(operations', FALSE))
                < Cardinality(Flagged(operations, FALSE))]_vars

\* C36: after a local operation that changes a stored field of a task
\* (edit, complete, undo, redo) the task is Pending, so that the next pass
\* uploads the change
C36_PendingAfterLocalChange ==
    [][last'.kind \in {"edit", "done", "undo", "redo"} =>
          \A id \in (DOMAIN todos) \cap (DOMAIN todos') :
              todos'[id] # todos[id] => todos'[id].sync_status = "pending"]_vars

\* C37: after a pass that completes without error, every task that is in the
\* main table and is a remote row without tombstone has the same field
\* values and the same last-modified on both sides
C37_ConvergedAfterSync ==
    AfterSync =>
        \A id \in (DOMAIN todos) \cap (DOMAIN remote) :
            remote[id].deleted_at = NoTime =>
                Values(todos[id]) = RemoteTodo(remote[id])

\* the remote rows that carry a tombstone
Tombstoned(rem) == {id \in DOMAIN rem : rem[id].deleted_at # NoTime}

\* C38: once soft_delete_todo has run for an id, no upsert clears the
\* tombstone: the row stays tombstoned and get_todos_since never returns it
\* again, also when the upsert is strictly newer and rewrites the fields;
\* deleted_at changes only when soft_delete_todo runs again and restamps it
C38_TombstoneSticks ==
    [][/\ \A id \in Tombstoned(remote) :
             /\ id \in Tombstoned(remote')
             /\ \/ remote'[id].deleted_at = remote[id].deleted_at
                \/ \E ts \in Times : remote' = soft_delete_todo(remote, id, ts)
             /\ \A since \in {NoTime} \cup Times :
                   ~InSeq(id, get_todos_since(remote', since))
       /\ \A id \in Tombstoned(remote) : \A v \in Versions(remote[id].created_at) :
             LET r == upsert_todo(remote, id, v)
             IN  /\ r[id].deleted_at = remote[id].deleted_at
                 /\ v.updated_at > remote[id].updated_at => HoldsVersion(r[id], v)]_vars

\* a pass has pushed a newer version of a task onto its tombstoned row
C38_Witness ==
    /\ AfterSync
    /\ last.uploaded >= 1
    /\ \E id \in Tombstoned(remote) :
          /\ id \in Tombstoned(last.pre_remote)
          /\ remote[id].updated_at > last.pre_remote[id].updated_at
          /\ remote[id].title # last.pre_remote[id].title

C40_UndoUnstash ==
    [][/\ \A k \in 1..Len(operations) :
             operations[k].operation_type = "unstash" =>
                 /\ apply_undo(operations[k], todos, now + 1) = Applied(todos, FALSE)
                 /\ tui_apply_undo(operations[k], todos, now + 1) = Applied(todos, FALSE)
       /\ (last'.kind \in {"undo", "undo_err"}
              /\ operations[last'.op].operation_type = "unstash") =>
             /\ last'.kind = "undo"
             /\ UNCHANGED <<todos, stash>>
             /\ operations' = [operations EXCEPT ![last'.op].undone = TRUE]
             /\ LET next == get_last_undoable_operation(operations')
                IN  /\ next # last'.op
                    /\ next # 0 => operations[next].created_at
                                      <= operations[last'.op].created_at
                    /\ next = 0 <=> Flagged(operations, FALSE) = {last'.op}]_vars

\* the Unstash entry of a pop has been undone and the Stash entry of the
\* push before it is the next one to undo
C40_Witness ==
    /\ last.kind = "undo"
    /\ operations[last.op].operation_type = "unstash"
    /\ operations[last.op].undone
    /\ get_last_undoable_operation(operations) # 0
    /\ operations[get_last_undoable_operation(operations)].operation_type = "stash"
    /\ last.id \in DOMAIN todos

====
